---- MODULE Spec2Model ----
(***************************************************************************)
(* Model of the warp-controller contract: the condition evaluation engine  *)
(* (util/condition.rs) and the job lifecycle handled by the contract entry *)
(* points (contract.rs) over the indexed <<pending, finished, state, accounts>> of state.rs.               *)
(***************************************************************************)
EXTENDS Integers, Sequences, FiniteSets, TLC

(***************************************************************************)
(* Bounds.  The numeric domains are modelled at a reduced width: an i128   *)
(* is a two's-complement integer of I128Bits bits, a Uint256 an unsigned   *)
(* integer of U256Bits bits, a Decimal256 a Uint256 of atomics with        *)
(* DecimalPlaces fractional decimal digits.                                *)
(***************************************************************************)
I128Bits == 4
U256Bits == 5
DecimalPlaces == 1

I128_MIN == -(2 ^ (I128Bits - 1))
I128_MAX == (2 ^ (I128Bits - 1)) - 1
I128 == I128_MIN .. I128_MAX

U256_MAX == (2 ^ U256Bits) - 1
U256 == 0 .. U256_MAX

\* Decimal256(Uint256): the value is atomics / DECIMAL_FRACTIONAL.
DECIMAL_FRACTIONAL == 10 ^ DecimalPlaces
DECIMAL_ONE == DECIMAL_FRACTIONAL
DECIMAL_MAX == U256_MAX

(***************************************************************************)
(* Results.  A Rust Result<T, ContractError> is Ok(v) or Err(e); a panic   *)
(* (unwrap on None / Err, arithmetic overflow under overflow-checks)       *)
(* aborts the whole call and is the third kind, "Panic".                   *)
(* Every result also carries qs, the external queries issued while it was   *)
(* computed, in order (each is one raw_query on the querier).              *)
(***************************************************************************)
Ok(v) == [kind |-> "Ok", val |-> v, err |-> "", qs |-> <<>>]
ErrN(e) == [kind |-> "Err", val |-> 0, err |-> e, qs |-> <<>>]
PanicN(e) == [kind |-> "Panic", val |-> 0, err |-> e, qs |-> <<>>]
ErrB(e) == [kind |-> "Err", val |-> FALSE, err |-> e, qs |-> <<>>]
ErrS(e) == [kind |-> "Err", val |-> <<>>, err |-> e, qs |-> <<>>]
WithQs(r, qs) == [r EXCEPT !.qs = qs]
\* `?` on a failed operand inside a function returning Result<bool, _>
AsBoolErr(r) == [kind |-> r.kind, val |-> FALSE, err |-> r.err, qs |-> r.qs]

Abs(x) == IF x < 0 THEN -x ELSE x
\* Rust integer division and remainder truncate toward zero.
TruncDiv(a, b) == (IF (a < 0) = (b < 0) THEN 1 ELSE -1) * (Abs(a) \div Abs(b))
TruncRem(a, b) == a - b * TruncDiv(a, b)

(***************************************************************************)
(* i128 primitives (core::num).                                            *)
(***************************************************************************)
I128Clamp(x) == IF x > I128_MAX THEN I128_MAX ELSE IF x < I128_MIN THEN I128_MIN ELSE x
\* two's-complement wrap-around of an out-of-range result
I128Wrap(x) == ((x - I128_MIN) % (2 ^ I128Bits)) + I128_MIN
i128_saturating_add(a, b) == I128Clamp(a + b)
i128_saturating_sub(a, b) == I128Clamp(a - b)
i128_saturating_mul(a, b) == I128Clamp(a * b)
\* checked_div / checked_rem: None on a zero divisor and on MIN / -1.
i128_checked_div(a, b) ==
    IF b = 0 \/ (a = I128_MIN /\ b = -1) THEN PanicN("unwrap on None") ELSE Ok(TruncDiv(a, b))
i128_checked_rem(a, b) ==
    IF b = 0 \/ (a = I128_MIN /\ b = -1) THEN PanicN("unwrap on None") ELSE Ok(TruncRem(a, b))
\* abs() overflows on MIN: a panic when the build has overflow checks on,
\* the wrapped value MIN when it has not.
i128_abs(a, overflow_checks) ==
    IF a = I128_MIN
    THEN IF overflow_checks THEN PanicN("attempt to negate with overflow") ELSE Ok(I128Wrap(-a))
    ELSE Ok(Abs(a))

(***************************************************************************)
(* Uint256 primitives (cosmwasm_std::Uint256).                             *)
(***************************************************************************)
U256Clamp(x) == IF x > U256_MAX THEN U256_MAX ELSE IF x < 0 THEN 0 ELSE x
u256_saturating_add(a, b) == U256Clamp(a + b)
u256_saturating_sub(a, b) == U256Clamp(a - b)
u256_saturating_mul(a, b) == U256Clamp(a * b)
u256_checked_div(a, b) == IF b = 0 THEN PanicN("unwrap on DivideByZero") ELSE Ok(a \div b)
u256_checked_rem(a, b) == IF b = 0 THEN PanicN("unwrap on DivideByZero") ELSE Ok(a % b)
u256_abs_diff(a, b) == IF a < b THEN b - a ELSE a - b

(***************************************************************************)
(* Decimal256 primitives (cosmwasm_std::Decimal256), on atomics.           *)
(***************************************************************************)
dec_saturating_add(a, b) == U256Clamp(a + b)
dec_saturating_sub(a, b) == U256Clamp(a - b)
\* checked_mul: full product of the atomics divided by DECIMAL_FRACTIONAL,
\* rounded down; saturating_mul maps the overflow to MAX.
dec_saturating_mul(a, b) == U256Clamp((a * b) \div DECIMAL_FRACTIONAL)
\* checked_div is checked_from_ratio(numerator, denominator): it fails on a
\* zero denominator and on a quotient above MAX.
dec_checked_div(a, b) ==
    IF b = 0 THEN PanicN("unwrap on DivideByZero")
    ELSE IF (a * DECIMAL_FRACTIONAL) \div b > DECIMAL_MAX THEN PanicN("unwrap on Overflow")
    ELSE Ok((a * DECIMAL_FRACTIONAL) \div b)
dec_checked_rem(a, b) == IF b = 0 THEN PanicN("unwrap on DivideByZero") ELSE Ok(a % b)
dec_abs_diff(a, b) == IF a < b THEN b - a ELSE a - b
dec_floor(a) == (a \div DECIMAL_FRACTIONAL) * DECIMAL_FRACTIONAL
dec_ceil(a) ==
    IF dec_floor(a) = a THEN Ok(a)
    ELSE IF dec_floor(a) + DECIMAL_ONE > DECIMAL_MAX THEN PanicN("attempt to ceil with overflow")
    ELSE Ok(dec_floor(a) + DECIMAL_ONE)

(***************************************************************************)
(* Text.  A string is a sequence of characters; the parsers read it digit  *)
(* by digit.                                                               *)
(***************************************************************************)
Digits == <<"0", "1", "2", "3", "4", "5", "6", "7", "8", "9">>
DigitVal(c) == (CHOOSE i \in 1..10 : Digits[i] = c) - 1

\* the digits of s read as a base-10 number (s is all digits)
RECURSIVE DecValue(_)
DecValue(s) == IF s = <<>> THEN 0 ELSE 10 * DecValue(SubSeq(s, 1, Len(s) - 1)) + DigitVal(s[Len(s)])

\* Uint256::from_str: empty input, a non-digit and a value above MAX are errors
uint256_from_str(s) ==
    IF s = <<>> THEN ErrN("Std(Parsing u256: received empty string)")
    ELSE IF \E i \in 1..Len(s) : s[i] \notin {Digits[d] : d \in 1..10} THEN ErrN("Std(Parsing u256: invalid digit)")
    ELSE IF DecValue(s) > U256_MAX THEN ErrN("Std(Parsing u256: number too large)")
    ELSE Ok(DecValue(s))

\* Decimal256::from_str: whole[.fractional], at most DECIMAL_PLACES fractional
\* digits, the value at most MAX
decimal256_from_str(s) ==
    LET dots == {i \in 1..Len(s) : s[i] = "."}
        dot == IF dots = {} THEN Len(s) + 1 ELSE CHOOSE i \in dots : \A j \in dots : i <= j
        whole == SubSeq(s, 1, dot - 1)
        frac == SubSeq(s, dot + 1, Len(s))
        allDigits(t) == t # <<>> /\ \A i \in 1..Len(t) : t[i] \in {Digits[d] : d \in 1..10}
    IN  IF ~allDigits(whole) THEN ErrN("Std(Error parsing whole)")
        ELSE IF DecValue(whole) * DECIMAL_FRACTIONAL > DECIMAL_MAX THEN ErrN("Std(Value too big)")
        ELSE IF dots = {} THEN Ok(DecValue(whole) * DECIMAL_FRACTIONAL)
        ELSE IF Cardinality(dots) > 1 THEN ErrN("Std(Unexpected number of dots)")
        ELSE IF ~allDigits(frac) THEN ErrN("Std(Error parsing fractional)")
        ELSE IF Len(frac) > DecimalPlaces
             THEN ErrN("Std(Cannot parse more than DECIMAL_PLACES fractional digits)")
        ELSE IF DecValue(whole) * DECIMAL_FRACTIONAL
                  + DecValue(frac) * (10 ^ (DecimalPlaces - Len(frac))) > DECIMAL_MAX
             THEN ErrN("Std(Value too big)")
        ELSE Ok(DecValue(whole) * DECIMAL_FRACTIONAL
                  + DecValue(frac) * (10 ^ (DecimalPlaces - Len(frac))))

(***************************************************************************)
(* The external query channel.  ctx.querier maps a query to what the host  *)
(* and the document yield for it: a failure at one stage of the pipeline   *)
(* (raw_query, JSON decoding, path navigation) or the leaf the selector    *)
(* resolves to.  ctx also holds env.block (height, time) and the build's   *)
(* overflow-checks setting.                                                *)
(***************************************************************************)
Outcome(stage, kind, b, n, s) == [stage |-> stage, kind |-> kind, b |-> b, n |-> n, s |-> s]
SystemErr == Outcome("system_err", "", FALSE, 0, <<>>)
ContractErr == Outcome("contract_err", "", FALSE, 0, <<>>)
BadJson == Outcome("decode_err", "", FALSE, 0, <<>>)
PathNotFound == Outcome("path_err", "", FALSE, 0, <<>>)
LeafBool(b) == Outcome("leaf", "Bool", b, 0, <<>>)
LeafI128(n) == Outcome("leaf", "I128", FALSE, n, <<>>)
LeafString(s) == Outcome("leaf", "String", FALSE, 0, s)
LeafNull == Outcome("leaf", "Null", FALSE, 0, <<>>)

\* resolve_query_expr: the raw query, its two error arms, the payload
resolve_query_expr(ctx, q) ==
    CASE ctx.querier[q].stage = "system_err" -> "Std(Querier system error)"
      [] ctx.querier[q].stage = "contract_err" -> "Std(Querier contract error)"
      [] OTHER -> "Ok"

\* the steps shared by the five typed accessors: query, decode, resolve_path.
\* "Ok" when the selector reaches a leaf, else the error of the failing step.
resolve_leaf(ctx, q) ==
    IF resolve_query_expr(ctx, q) # "Ok" THEN resolve_query_expr(ctx, q)
    ELSE IF ctx.querier[q].stage = "decode_err" THEN "Std(json decode)"
    ELSE IF ctx.querier[q].stage = "path_err" THEN "PathNotFound"
    ELSE "Ok"

\* Ref::bool / Ref::string / Ref::i128: Some only for a leaf of that type
ref_bool(leaf) == leaf.kind = "Bool"
ref_string(leaf) == leaf.kind = "String"
ref_i128(leaf) == leaf.kind = "I128"

resolve_query_expr_bool(ctx, q) ==
    WithQs(IF resolve_leaf(ctx, q) # "Ok" THEN ErrB(resolve_leaf(ctx, q))
           ELSE IF ~ref_bool(ctx.querier[q]) THEN ErrB("DecodeError")
           ELSE Ok(ctx.querier[q].b), <<q>>)

resolve_query_expr_uint(ctx, q) ==
    WithQs(IF resolve_leaf(ctx, q) # "Ok" THEN ErrN(resolve_leaf(ctx, q))
           ELSE IF ~ref_string(ctx.querier[q]) THEN ErrN("DecodeError")
           ELSE uint256_from_str(ctx.querier[q].s), <<q>>)

resolve_query_expr_int(ctx, q) ==
    WithQs(IF resolve_leaf(ctx, q) # "Ok" THEN ErrN(resolve_leaf(ctx, q))
           ELSE IF ~ref_i128(ctx.querier[q]) THEN ErrN("DecodeError")
           ELSE Ok(ctx.querier[q].n), <<q>>)

resolve_query_expr_decimal(ctx, q) ==
    WithQs(IF resolve_leaf(ctx, q) # "Ok" THEN ErrN(resolve_leaf(ctx, q))
           ELSE IF ~ref_string(ctx.querier[q]) THEN ErrN("Unauthorized")
           ELSE decimal256_from_str(ctx.querier[q].s), <<q>>)

resolve_query_expr_string(ctx, q) ==
    WithQs(IF resolve_leaf(ctx, q) # "Ok" THEN ErrS(resolve_leaf(ctx, q))
           ELSE IF ~ref_string(ctx.querier[q]) THEN ErrS("DecodeError")
           ELSE Ok(ctx.querier[q].s), <<q>>)

(***************************************************************************)
(* NumValue<T>: Simple(v) | Expr(op, left, right) | Query(q) | Fn(op, right)*)
(***************************************************************************)
Simple(v) == [tag |-> "Simple", val |-> v, op |-> "", args |-> <<>>, q |-> 0]
NumExpr(op, l, r) == [tag |-> "Expr", val |-> 0, op |-> op, args |-> <<l, r>>, q |-> 0]
NumFn(op, r) == [tag |-> "Fn", val |-> 0, op |-> op, args |-> <<r>>, q |-> 0]
NumQuery(q) == [tag |-> "Query", val |-> 0, op |-> "", args |-> <<>>, q |-> q]

NumExprOp == {"Add", "Sub", "Div", "Mul", "Mod"}
IntFnOp == {"Abs", "Neg"}
DecimalFnOp == {"Abs", "Neg", "Floor", "Ceil"}
NumOp == {"Eq", "Neq", "Lt", "Gt", "Gte", "Lte"}

RECURSIVE resolve_num_value_int(_, _)
RECURSIVE resolve_num_value_uint(_, _)
RECURSIVE resolve_num_value_decimal(_, _)

resolve_num_fn_int(ctx, expr) ==
    LET right == resolve_num_value_int(ctx, expr.args[1])
    IN  IF right.kind # "Ok" THEN right
        ELSE WithQs(CASE expr.op = "Abs" -> i128_abs(right.val, ctx.overflow_checks)
                      [] expr.op = "Neg" -> Ok(i128_saturating_mul(right.val, -1)),
                    right.qs)

\* resolve_num_expr_int with wrapping in place of saturating addition
resolve_num_expr_int_wrapping_add(ctx, expr) ==
    LET left == resolve_num_value_int(ctx, expr.args[1])
        right == resolve_num_value_int(ctx, expr.args[2])
    IN  IF left.kind # "Ok" THEN left
        ELSE IF right.kind # "Ok" THEN WithQs(right, left.qs \o right.qs)
        ELSE WithQs(CASE expr.op = "Sub" -> Ok(i128_saturating_sub(left.val, right.val))
                      [] expr.op = "Add" -> Ok(I128Wrap(left.val + right.val))
                      [] expr.op = "Div" -> i128_checked_div(left.val, right.val)
                      [] expr.op = "Mul" -> Ok(i128_saturating_mul(left.val, right.val))
                      [] expr.op = "Mod" -> i128_checked_rem(left.val, right.val),
                    left.qs \o right.qs)

resolve_num_expr_int(ctx, expr) ==
    LET left == resolve_num_value_int(ctx, expr.args[1])
        right == resolve_num_value_int(ctx, expr.args[2])
    IN  IF left.kind # "Ok" THEN left
        ELSE IF right.kind # "Ok" THEN WithQs(right, left.qs \o right.qs)
        ELSE WithQs(CASE expr.op = "Sub" -> Ok(i128_saturating_sub(left.val, right.val))
                      [] expr.op = "Add" -> Ok(i128_saturating_add(left.val, right.val))
                      [] expr.op = "Div" -> i128_checked_div(left.val, right.val)
                      [] expr.op = "Mul" -> Ok(i128_saturating_mul(left.val, right.val))
                      [] expr.op = "Mod" -> i128_checked_rem(left.val, right.val),
                    left.qs \o right.qs)

resolve_num_value_int(ctx, value) ==
    CASE value.tag = "Simple" -> Ok(value.val)
      [] value.tag = "Expr" -> resolve_num_expr_int(ctx, value)
      [] value.tag = "Query" -> resolve_query_expr_int(ctx, value.q)
      [] value.tag = "Fn" -> resolve_num_fn_int(ctx, value)

resolve_num_fn_uint(ctx, expr) ==
    LET right == resolve_num_value_uint(ctx, expr.args[1])
    IN  IF right.kind # "Ok" THEN right
        ELSE WithQs(CASE expr.op = "Abs" -> Ok(u256_abs_diff(right.val, 0))
                      [] expr.op = "Neg" ->
                           Ok(u256_saturating_mul(right.val, u256_saturating_sub(0, 1))),
                    right.qs)

resolve_num_expr_uint(ctx, expr) ==
    LET left == resolve_num_value_uint(ctx, expr.args[1])
        right == resolve_num_value_uint(ctx, expr.args[2])
    IN  IF left.kind # "Ok" THEN left
        ELSE IF right.kind # "Ok" THEN WithQs(right, left.qs \o right.qs)
        ELSE WithQs(CASE expr.op = "Sub" -> Ok(u256_saturating_sub(left.val, right.val))
                      [] expr.op = "Add" -> Ok(u256_saturating_add(left.val, right.val))
                      [] expr.op = "Div" -> u256_checked_div(left.val, right.val)
                      [] expr.op = "Mul" -> Ok(u256_saturating_mul(left.val, right.val))
                      [] expr.op = "Mod" -> u256_checked_rem(left.val, right.val),
                    left.qs \o right.qs)

resolve_num_value_uint(ctx, value) ==
    CASE value.tag = "Simple" -> Ok(value.val)
      [] value.tag = "Expr" -> resolve_num_expr_uint(ctx, value)
      [] value.tag = "Query" -> resolve_query_expr_uint(ctx, value.q)
      [] value.tag = "Fn" -> resolve_num_fn_uint(ctx, value)

\* DecimalFnOp::Sqrt is not modelled
resolve_num_fn_decimal(ctx, expr) ==
    LET right == resolve_num_value_decimal(ctx, expr.args[1])
    IN  IF right.kind # "Ok" THEN right
        ELSE WithQs(CASE expr.op = "Abs" -> Ok(dec_abs_diff(right.val, 0))
                      [] expr.op = "Neg" ->
                           Ok(dec_saturating_mul(right.val, dec_saturating_sub(0, DECIMAL_ONE)))
                      [] expr.op = "Floor" -> Ok(dec_floor(right.val))
                      [] expr.op = "Ceil" -> dec_ceil(right.val),
                    right.qs)

resolve_num_expr_decimal(ctx, expr) ==
    LET left == resolve_num_value_decimal(ctx, expr.args[1])
        right == resolve_num_value_decimal(ctx, expr.args[2])
    IN  IF left.kind # "Ok" THEN left
        ELSE IF right.kind # "Ok" THEN WithQs(right, left.qs \o right.qs)
        ELSE WithQs(CASE expr.op = "Sub" -> Ok(dec_saturating_sub(left.val, right.val))
                      [] expr.op = "Add" -> Ok(dec_saturating_add(left.val, right.val))
                      [] expr.op = "Div" -> dec_checked_div(left.val, right.val)
                      [] expr.op = "Mul" -> Ok(dec_saturating_mul(left.val, right.val))
                      [] expr.op = "Mod" -> dec_checked_rem(left.val, right.val),
                    left.qs \o right.qs)

resolve_num_value_decimal(ctx, value) ==
    CASE value.tag = "Simple" -> Ok(value.val)
      [] value.tag = "Expr" -> resolve_num_expr_decimal(ctx, value)
      [] value.tag = "Query" -> resolve_query_expr_decimal(ctx, value.q)
      [] value.tag = "Fn" -> resolve_num_fn_decimal(ctx, value)

(***************************************************************************)
(* Comparisons.                                                            *)
(***************************************************************************)
resolve_int_op(left, right, op) ==
    CASE op = "Eq" -> left = right
      [] op = "Neq" -> left # right
      [] op = "Lt" -> left < right
      [] op = "Gt" -> left > right
      [] op = "Gte" -> left >= right
      [] op = "Lte" -> left <= right
resolve_uint_op(left, right, op) == resolve_int_op(left, right, op)
resolve_decimal_op(left, right, op) == resolve_int_op(left, right, op)

StringOp == {"StartsWith", "EndsWith", "Contains", "Eq", "Neq"}
starts_with(l, r) == Len(r) <= Len(l) /\ SubSeq(l, 1, Len(r)) = r
ends_with(l, r) == Len(r) <= Len(l) /\ SubSeq(l, Len(l) - Len(r) + 1, Len(l)) = r
contains(l, r) == \E i \in 0..(Len(l) - Len(r)) : SubSeq(l, i + 1, i + Len(r)) = r
resolve_str_op(left, right, op) ==
    CASE op = "StartsWith" -> starts_with(left, right)
      [] op = "EndsWith" -> ends_with(left, right)
      [] op = "Contains" -> contains(left, right)
      [] op = "Eq" -> left = right
      [] op = "Neq" -> left # right

(***************************************************************************)
(* Expr: String | Uint | Int | Decimal (GenExpr left op right),            *)
(* Timestamp | BlockHeight (op, comparator), Bool (QueryExpr).             *)
(* A string Value is StrSimple(s) or StrQuery(q).                          *)
(***************************************************************************)
StrSimple(s) == [tag |-> "StrSimple", val |-> s, op |-> "", args |-> <<>>, q |-> 0]
StrQuery(q) == [tag |-> "StrQuery", val |-> <<>>, op |-> "", args |-> <<>>, q |-> q]
NoValue == Simple(0)
GenExpr(kind, l, op, r) ==
    [kind |-> kind, left |-> l, op |-> op, right |-> r, comparator |-> 0, q |-> 0]
TimeExpr(op, c) ==
    [kind |-> "Timestamp", left |-> NoValue, op |-> op, right |-> NoValue, comparator |-> c, q |-> 0]
BlockExpr(op, c) ==
    [kind |-> "BlockHeight", left |-> NoValue, op |-> op, right |-> NoValue, comparator |-> c, q |-> 0]
BoolExpr(q) ==
    [kind |-> "Bool", left |-> NoValue, op |-> "", right |-> NoValue, comparator |-> 0, q |-> q]
TimeOp == {"Lt", "Gt"}

resolve_int_expr(ctx, expr) ==
    LET left == resolve_num_value_int(ctx, expr.left)
        right == resolve_num_value_int(ctx, expr.right)
    IN  IF left.kind # "Ok" THEN AsBoolErr(left)
        ELSE IF right.kind # "Ok" THEN WithQs(AsBoolErr(right), left.qs \o right.qs)
        ELSE WithQs(Ok(resolve_int_op(left.val, right.val, expr.op)), left.qs \o right.qs)

resolve_uint_expr(ctx, expr) ==
    LET left == resolve_num_value_uint(ctx, expr.left)
        right == resolve_num_value_uint(ctx, expr.right)
    IN  IF left.kind # "Ok" THEN AsBoolErr(left)
        ELSE IF right.kind # "Ok" THEN WithQs(AsBoolErr(right), left.qs \o right.qs)
        ELSE WithQs(Ok(resolve_uint_op(left.val, right.val, expr.op)), left.qs \o right.qs)

resolve_decimal_expr(ctx, expr) ==
    LET left == resolve_num_value_decimal(ctx, expr.left)
        right == resolve_num_value_decimal(ctx, expr.right)
    IN  IF left.kind # "Ok" THEN AsBoolErr(left)
        ELSE IF right.kind # "Ok" THEN WithQs(AsBoolErr(right), left.qs \o right.qs)
        ELSE WithQs(Ok(resolve_decimal_op(left.val, right.val, expr.op)), left.qs \o right.qs)

\* resolve_timestamp_expr with Gt taken as "not earlier than"
resolve_timestamp_expr_gt_inclusive(ctx, expr) ==
    Ok(CASE expr.op = "Lt" -> ctx.time < expr.comparator
         [] expr.op = "Gt" -> ctx.time >= expr.comparator)

resolve_timestamp_expr(ctx, expr) ==
    Ok(CASE expr.op = "Lt" -> ctx.time < expr.comparator
         [] expr.op = "Gt" -> ctx.time > expr.comparator)

resolve_block_expr(ctx, expr) ==
    Ok(CASE expr.op = "Eq" -> ctx.height = expr.comparator
         [] expr.op = "Neq" -> ctx.height # expr.comparator
         [] expr.op = "Lt" -> ctx.height < expr.comparator
         [] expr.op = "Gt" -> ctx.height > expr.comparator
         [] expr.op = "Gte" -> ctx.height >= expr.comparator
         [] expr.op = "Lte" -> ctx.height <= expr.comparator)

resolve_string_value(ctx, value) ==
    IF value.tag = "StrSimple" THEN Ok(value.val) ELSE resolve_query_expr_string(ctx, value.q)

\* the four (left, right) arms: a Simple operand is taken as it is, a Query
\* operand is resolved, the left one first
resolve_string_expr(ctx, expr) ==
    LET left == resolve_string_value(ctx, expr.left)
        right == resolve_string_value(ctx, expr.right)
    IN  IF left.kind # "Ok" THEN AsBoolErr(left)
        ELSE IF right.kind # "Ok" THEN WithQs(AsBoolErr(right), left.qs \o right.qs)
        ELSE WithQs(Ok(resolve_str_op(left.val, right.val, expr.op)), left.qs \o right.qs)

resolve_expr(ctx, expr) ==
    CASE expr.kind = "String" -> resolve_string_expr(ctx, expr)
      [] expr.kind = "Uint" -> resolve_uint_expr(ctx, expr)
      [] expr.kind = "Int" -> resolve_int_expr(ctx, expr)
      [] expr.kind = "Decimal" -> resolve_decimal_expr(ctx, expr)
      [] expr.kind = "Timestamp" -> resolve_timestamp_expr(ctx, expr)
      [] expr.kind = "BlockHeight" -> resolve_block_expr(ctx, expr)
      [] expr.kind = "Bool" -> resolve_query_expr_bool(ctx, expr.q)

(***************************************************************************)
(* Condition: And(conds) | Or(conds) | Not(cond) | Expr(expr).             *)
(***************************************************************************)
And(conds) == [tag |-> "And", conds |-> conds, expr |-> BoolExpr(0)]
Or(conds) == [tag |-> "Or", conds |-> conds, expr |-> BoolExpr(0)]
Not(cond) == [tag |-> "Not", conds |-> <<cond>>, expr |-> BoolExpr(0)]
Expr(expr) == [tag |-> "Expr", conds |-> <<>>, expr |-> expr]

RECURSIVE resolve_cond(_, _)

\* the And loop without the early return: every child is evaluated and the
\* results are combined at the end
RECURSIVE and_loop_evaluates_all(_, _, _)
and_loop_evaluates_all(ctx, conds, i) ==
    IF i > Len(conds) THEN Ok(TRUE)
    ELSE LET r == resolve_cond(ctx, conds[i])
             rest == and_loop_evaluates_all(ctx, conds, i + 1)
         IN  IF r.kind # "Ok" THEN r
             ELSE IF rest.kind # "Ok" THEN WithQs(rest, r.qs \o rest.qs)
             ELSE WithQs(Ok(r.val /\ rest.val), r.qs \o rest.qs)

\* the And loop that skips a false child instead of returning false
RECURSIVE and_loop_skips_false(_, _, _)
and_loop_skips_false(ctx, conds, i) ==
    IF i > Len(conds) THEN Ok(TRUE)
    ELSE LET r == resolve_cond(ctx, conds[i])
             rest == and_loop_skips_false(ctx, conds, i + 1)
         IN  IF r.kind # "Ok" THEN r ELSE WithQs(rest, r.qs \o rest.qs)

\* the loop of the And arm from child i on: the first child that is not
\* Ok(true) ends it (an error by `?`, a false by the early return)
RECURSIVE and_loop(_, _, _)
and_loop(ctx, conds, i) ==
    IF i > Len(conds) THEN Ok(TRUE)
    ELSE LET r == resolve_cond(ctx, conds[i])
         IN  IF r.kind # "Ok" THEN r
             ELSE IF ~r.val THEN WithQs(Ok(FALSE), r.qs)
             ELSE WithQs(and_loop(ctx, conds, i + 1), r.qs \o and_loop(ctx, conds, i + 1).qs)

\* the Or loop that answers true when no child is left
RECURSIVE or_loop_exhausted_true(_, _, _)
or_loop_exhausted_true(ctx, conds, i) ==
    IF i > Len(conds) THEN Ok(TRUE)
    ELSE LET r == resolve_cond(ctx, conds[i])
             rest == or_loop_exhausted_true(ctx, conds, i + 1)
         IN  IF r.kind # "Ok" THEN r
             ELSE IF r.val THEN WithQs(Ok(TRUE), r.qs)
             ELSE WithQs(rest, r.qs \o rest.qs)

\* the loop of the Or arm from child i on
RECURSIVE or_loop(_, _, _)
or_loop(ctx, conds, i) ==
    IF i > Len(conds) THEN Ok(FALSE)
    ELSE LET r == resolve_cond(ctx, conds[i])
         IN  IF r.kind # "Ok" THEN r
             ELSE IF r.val THEN WithQs(Ok(TRUE), r.qs)
             ELSE WithQs(or_loop(ctx, conds, i + 1), r.qs \o or_loop(ctx, conds, i + 1).qs)

\* the Not arm that takes a failed operand for false
not_arm_swallows_error(ctx, cond) ==
    LET r == resolve_cond(ctx, cond)
    IN  IF r.kind # "Ok" THEN WithQs(Ok(TRUE), r.qs) ELSE WithQs(Ok(~r.val), r.qs)

\* the Not arm
not_arm(ctx, cond) ==
    LET r == resolve_cond(ctx, cond)
    IN  IF r.kind # "Ok" THEN r ELSE WithQs(Ok(~r.val), r.qs)

resolve_cond(ctx, cond) ==
    CASE cond.tag = "And" -> and_loop(ctx, cond.conds, 1)
      [] cond.tag = "Or" -> or_loop(ctx, cond.conds, 1)
      [] cond.tag = "Not" -> not_arm(ctx, cond.conds[1])
      [] cond.tag = "Expr" -> resolve_expr(ctx, cond.expr)

(***************************************************************************)
(* Storage.  An IndexedMap is its primary map; the secondary indexes are   *)
(* kept with it on every write, so the unique index is the image of the    *)
(* map under the index function.                                           *)
(***************************************************************************)
MaxJobs == 2
MaxDispatch == 2

EmptyMap == [k \in {} |-> 0]
Has(m, k) == k \in DOMAIN m
MapRemove(m, k) == [x \in DOMAIN m \ {k} |-> m[x]]
MapPut(m, k, v) == [x \in DOMAIN m \cup {k} |-> IF x = k THEN v ELSE m[x]]

\* the index key without the tie-break on the id
job_reward_index_reward_only(job) == <<job.reward, 0>>

\* JobIndexes.reward: the unique index key of a job
job_reward_index(job) == <<job.reward, job.id>>
\* AccountIndexes.account: the unique index key of an account
account_index(account) == account.account

\* IndexedMap::save on PENDING_JOBS / FINISHED_JOBS: the old entry's index
\* keys are dropped, then the unique index refuses a key another entry holds
JobsViolateUnique(m, k, job) ==
    \E x \in DOMAIN m \ {k} : job_reward_index(m[x]) = job_reward_index(job)
\* the account index taken as a MultiIndex: no key is refused
AccountsNeverViolateUnique(m, k, account) == FALSE
AccountsViolateUnique(m, k, account) ==
    \E x \in DOMAIN m \ {k} : account_index(m[x]) = account_index(account)

Job(id, owner, time, name, status, condition, msgs, reward) ==
    [id |-> id, owner |-> owner, last_update_time |-> time, name |-> name,
     status |-> status, condition |-> condition, msgs |-> msgs, reward |-> reward]

\* what a call returns: the Result, the storage as the handler left it, and
\* the Response (sub-messages and attributes).  The host keeps the storage
\* writes of a call only when the call returns Ok.
NoAttrs ==
    [action |-> "", job_id |-> 0, job_status |-> <<>>, transaction_error |-> <<>>,
     owner |-> "", account_address |-> ""]
CallOk(st, submsgs, attrs) ==
    [kind |-> "Ok", err |-> "", st |-> st, submsgs |-> submsgs, attrs |-> attrs]
CallErr(st, e) ==
    [kind |-> "Err", err |-> e, st |-> st, submsgs |-> <<>>, attrs |-> NoAttrs]
CallPanic(st, e) ==
    [kind |-> "Panic", err |-> e, st |-> st, submsgs |-> <<>>, attrs |-> NoAttrs]

\* the counter started from Uint64::zero() * Uint64::pow(Uint64::new(1), 100)
InitialJobIdFromZero == 0 * (1 ^ 100)

\* instantiate: Uint64::zero() + Uint64::one() * Uint64::pow(Uint64::new(1), 100)
InitialJobId == 0 + 1 * (1 ^ 100)
instantiate ==
    [pending |-> EmptyMap, finished |-> EmptyMap, current_job_id |-> InitialJobId,
     accounts |-> EmptyMap]

(***************************************************************************)
(* execute::job, as the design specification describes it (section 4.5).  *)
(***************************************************************************)
\* create_job: the job gets the next id and is stored Pending
create_job(st, ctx, sender, data) ==
    LET id == st.current_job_id
        job == Job(id, sender, ctx.time, data.name, "Pending", data.condition, data.msgs,
                   data.reward)
    IN  IF Has(st.pending, id) THEN CallErr(st, "JobAlreadyExists")
        ELSE IF JobsViolateUnique(st.pending, id, job)
             THEN CallErr(st, "Std(Violates unique constraint on index)")
        ELSE CallOk([st EXCEPT !.pending = MapPut(st.pending, id, job),
                               !.current_job_id = id + 1],
                    <<>>, [NoAttrs EXCEPT !.action = "create_job", !.job_id = id])

\* execute_job with an in-flight guard: the dispatch marks the job Running and
\* a job that is not Pending is refused
execute_job_guards_in_flight(st, ctx, sender, data) ==
    IF ~Has(st.pending, data.id) THEN CallErr(st, "JobNotFound")
    ELSE LET job == st.pending[data.id]
             r == resolve_cond(ctx, job.condition)
         IN  IF job.status # "Pending" THEN CallErr(st, "JobInFlight")
             ELSE IF r.kind = "Panic" THEN CallPanic(st, r.err)
             ELSE IF r.kind = "Err" THEN CallErr(st, r.err)
             ELSE IF ~r.val THEN CallErr(st, "ConditionNotMet")
             ELSE CallOk([st EXCEPT !.pending[data.id].status = "Running"],
                         <<[id |-> job.id, msgs |-> job.msgs]>>,
                         [NoAttrs EXCEPT !.action = "execute_job", !.job_id = job.id])

\* execute_job: load, evaluate the condition, hand the messages off tagged
\* with the job's id
execute_job(st, ctx, sender, data) ==
    IF ~Has(st.pending, data.id) THEN CallErr(st, "JobNotFound")
    ELSE LET job == st.pending[data.id]
             r == resolve_cond(ctx, job.condition)
         IN  IF r.kind = "Panic" THEN CallPanic(st, r.err)
             ELSE IF r.kind = "Err" THEN CallErr(st, r.err)
             ELSE IF ~r.val THEN CallErr(st, "ConditionNotMet")
             ELSE CallOk(st, <<[id |-> job.id, msgs |-> job.msgs]>>,
                         [NoAttrs EXCEPT !.action = "execute_job", !.job_id = job.id])

(***************************************************************************)
(* contract.rs entry points.                                               *)
(***************************************************************************)
CreateJobMsg(data) == [type |-> "CreateJob", data |-> data, id |-> 0]
ExecuteJobMsg(id) ==
    [type |-> "ExecuteJob",
     data |-> [name |-> "", condition |-> And(<<>>), msgs |-> "", reward |-> 0], id |-> id]

\* execute: the ExecuteMsg arms modelled are CreateJob and ExecuteJob
execute(st, ctx, sender, msg) ==
    CASE msg.type = "CreateJob" -> create_job(st, ctx, sender, msg.data)
      [] msg.type = "ExecuteJob" -> execute_job(st, ctx, sender, [id |-> msg.id])

\* SubMsgResult::Ok(_) | SubMsgResult::Err(e); for id 0 the fields of the
\* instantiate event (an absent attribute is the empty sequence)
SubMsgOk == [ok |-> TRUE, err |-> ""]
SubMsgErr(e) == [ok |-> FALSE, err |-> e]
Reply(id, result, ev) == [id |-> id, result |-> result, ev |-> ev]
NoEvent == [instantiate |-> FALSE, owner |-> <<>>, contract_addr |-> <<>>]

\* deps.api.addr_validate: Ok for the addresses the chain knows
Addresses == {"alice", "bob", "proxy1", "proxy2"}
addr_validate(human) == human \in Addresses

\* reply, arm 0, without the check that the owner has no account yet: the
\* save replaces the owner's record
reply_account_overwrites(st, msg) ==
    IF ~msg.result.ok THEN CallErr(st, "Std(generic)")
    ELSE IF ~msg.ev.instantiate THEN CallErr(st, "Std(cannot find instantiate event)")
    ELSE IF msg.ev.owner = <<>> THEN CallErr(st, "Std(cannot find owner attribute)")
    ELSE IF msg.ev.contract_addr = <<>>
         THEN CallErr(st, "Std(cannot find contract_addr attribute)")
    ELSE LET owner == msg.ev.owner[1]
             address == msg.ev.contract_addr[1]
             account == [owner |-> owner, account |-> address]
         IN  IF ~addr_validate(owner) THEN CallErr(st, "Std(addr_validate)")
             ELSE IF ~addr_validate(address) THEN CallErr(st, "Std(addr_validate)")
             ELSE IF AccountsViolateUnique(st.accounts, owner, account)
                  THEN CallErr(st, "Std(Violates unique constraint on index)")
             ELSE CallOk([st EXCEPT !.accounts = MapPut(st.accounts, owner, account)],
                         <<>>,
                         [NoAttrs EXCEPT !.action = "save_account", !.owner = owner,
                                         !.account_address = address])

\* reply, arm 0: account creation
reply_account(st, msg) ==
    IF ~msg.result.ok THEN CallErr(st, "Std(generic)")
    ELSE IF ~msg.ev.instantiate THEN CallErr(st, "Std(cannot find instantiate event)")
    ELSE IF msg.ev.owner = <<>> THEN CallErr(st, "Std(cannot find owner attribute)")
    ELSE IF msg.ev.contract_addr = <<>>
         THEN CallErr(st, "Std(cannot find contract_addr attribute)")
    ELSE LET owner == msg.ev.owner[1]
             address == msg.ev.contract_addr[1]
             account == [owner |-> owner, account |-> address]
         IN  IF ~addr_validate(owner) THEN CallErr(st, "Std(addr_validate)")
             ELSE IF Has(st.accounts, owner) THEN CallErr(st, "AccountAlreadyExists")
             ELSE IF ~addr_validate(address) THEN CallErr(st, "Std(addr_validate)")
             ELSE IF AccountsViolateUnique(st.accounts, owner, account)
                  THEN CallErr(st, "Std(Violates unique constraint on index)")
             ELSE CallOk([st EXCEPT !.accounts = MapPut(st.accounts, owner, account)],
                         <<>>,
                         [NoAttrs EXCEPT !.action = "save_account", !.owner = owner,
                                         !.account_address = address])

\* serde_json_wasm::to_string of a JobStatus: the JSON string of the variant's
\* name, the text between two quotation marks
to_string(status) == <<"\"", status, "\"">>

\* reply_job with the removal from the pending store left out
reply_job_keeps_pending(st, msg) ==
    LET new_status == IF msg.result.ok THEN "Executed" ELSE "Failed"
    IN  IF ~Has(st.pending, msg.id) THEN CallErr(st, "Std(NotFound)")
        ELSE LET job == st.pending[msg.id]
                 new_job == Job(job.id, job.owner, job.last_update_time, job.name, new_status,
                                job.condition, job.msgs, job.reward)
             IN  IF Has(st.finished, msg.id) THEN CallErr(st, "JobAlreadyFinished")
                 ELSE CallOk([st EXCEPT !.finished = MapPut(st.finished, msg.id, new_job)],
                             <<>>,
                             [NoAttrs EXCEPT !.action = "execute_reply", !.job_id = job.id,
                                             !.job_status = to_string(job.status)])

\* reply_job with the insertion into the finished store left out
reply_job_drops_job(st, msg) ==
    IF ~Has(st.pending, msg.id) THEN CallErr(st, "Std(NotFound)")
    ELSE CallOk([st EXCEPT !.pending = MapRemove(st.pending, msg.id)], <<>>,
                [NoAttrs EXCEPT !.action = "execute_reply", !.job_id = msg.id,
                                !.job_status = to_string(st.pending[msg.id].status)])

\* reply_job with the status taken from the Ok arm whatever the outcome
reply_job_always_executed(st, msg) ==
    IF ~Has(st.pending, msg.id) THEN CallErr(st, "Std(NotFound)")
    ELSE LET job == st.pending[msg.id]
             st1 == [st EXCEPT !.pending = MapRemove(st.pending, msg.id)]
             new_job == Job(job.id, job.owner, job.last_update_time, job.name, "Executed",
                            job.condition, job.msgs, job.reward)
         IN  IF Has(st1.finished, msg.id) THEN CallErr(st1, "JobAlreadyFinished")
             ELSE CallOk([st1 EXCEPT !.finished = MapPut(st1.finished, msg.id, new_job)],
                         <<>>,
                         [NoAttrs EXCEPT !.action = "execute_reply", !.job_id = job.id,
                                         !.job_status = to_string(job.status)])

\* reply_job that takes a callback for a job that is not pending as done
reply_job_ignores_missing(st, msg) ==
    LET new_status == IF msg.result.ok THEN "Executed" ELSE "Failed"
    IN  IF ~Has(st.pending, msg.id)
        THEN CallOk(st, <<>>, [NoAttrs EXCEPT !.action = "execute_reply", !.job_id = msg.id])
        ELSE LET job == st.pending[msg.id]
                 st1 == [st EXCEPT !.pending = MapRemove(st.pending, msg.id)]
                 new_job == Job(job.id, job.owner, job.last_update_time, job.name, new_status,
                                job.condition, job.msgs, job.reward)
                 res_attrs == IF msg.result.ok THEN <<>> ELSE <<msg.result.err>>
             IN  CallOk([st1 EXCEPT !.finished = MapPut(st1.finished, msg.id, new_job)],
                        <<>>,
                        [NoAttrs EXCEPT !.action = "execute_reply", !.job_id = job.id,
                                        !.job_status = to_string(job.status),
                                        !.transaction_error = res_attrs])

\* reply_job that finalizes the job and empties the pending store
reply_job_clears_pending(st, msg) ==
    LET new_status == IF msg.result.ok THEN "Executed" ELSE "Failed"
    IN  IF ~Has(st.pending, msg.id) THEN CallErr(st, "Std(NotFound)")
        ELSE LET job == st.pending[msg.id]
                 st1 == [st EXCEPT !.pending = EmptyMap]
                 new_job == Job(job.id, job.owner, job.last_update_time, job.name, new_status,
                                job.condition, job.msgs, job.reward)
                 res_attrs == IF msg.result.ok THEN <<>> ELSE <<msg.result.err>>
             IN  IF Has(st1.finished, msg.id) THEN CallErr(st1, "JobAlreadyFinished")
                 ELSE CallOk([st1 EXCEPT !.finished = MapPut(st1.finished, msg.id, new_job)],
                             <<>>,
                             [NoAttrs EXCEPT !.action = "execute_reply", !.job_id = job.id,
                                             !.job_status = to_string(job.status),
                                             !.transaction_error = res_attrs])

\* reply_job that passes a failed outcome on as its own error, as arm 0 does
reply_job_propagates_failure(st, msg) ==
    IF ~msg.result.ok THEN CallErr(st, "Std(generic)")
    ELSE IF ~Has(st.pending, msg.id) THEN CallErr(st, "Std(NotFound)")
    ELSE LET job == st.pending[msg.id]
             st1 == [st EXCEPT !.pending = MapRemove(st.pending, msg.id)]
             new_job == Job(job.id, job.owner, job.last_update_time, job.name, "Executed",
                            job.condition, job.msgs, job.reward)
         IN  IF Has(st1.finished, msg.id) THEN CallErr(st1, "JobAlreadyFinished")
             ELSE CallOk([st1 EXCEPT !.finished = MapPut(st1.finished, msg.id, new_job)],
                         <<>>,
                         [NoAttrs EXCEPT !.action = "execute_reply", !.job_id = job.id,
                                         !.job_status = to_string(job.status)])

\* reply_job that adds no transaction_error attribute
reply_job_no_transaction_error(st, msg) ==
    LET new_status == IF msg.result.ok THEN "Executed" ELSE "Failed"
    IN  IF ~Has(st.pending, msg.id) THEN CallErr(st, "Std(NotFound)")
        ELSE LET job == st.pending[msg.id]
                 st1 == [st EXCEPT !.pending = MapRemove(st.pending, msg.id)]
                 new_job == Job(job.id, job.owner, job.last_update_time, job.name, new_status,
                                job.condition, job.msgs, job.reward)
             IN  IF Has(st1.finished, msg.id) THEN CallErr(st1, "JobAlreadyFinished")
                 ELSE CallOk([st1 EXCEPT !.finished = MapPut(st1.finished, msg.id, new_job)],
                             <<>>,
                             [NoAttrs EXCEPT !.action = "execute_reply", !.job_id = job.id,
                                             !.job_status = to_string(job.status)])

\* reply, arm _: job execution
reply_job(st, msg) ==
    LET new_status == IF msg.result.ok THEN "Executed" ELSE "Failed"
    IN  IF ~Has(st.pending, msg.id) THEN CallErr(st, "Std(NotFound)")
        ELSE LET job == st.pending[msg.id]
                 st1 == [st EXCEPT !.pending = MapRemove(st.pending, msg.id)]
                 new_job == Job(job.id, job.owner, job.last_update_time, job.name, new_status,
                                job.condition, job.msgs, job.reward)
                 res_attrs == IF msg.result.ok THEN <<>> ELSE <<msg.result.err>>
             IN  IF Has(st1.finished, msg.id) THEN CallErr(st1, "JobAlreadyFinished")
                 ELSE IF JobsViolateUnique(st1.finished, msg.id, new_job)
                      THEN CallErr(st1, "Std(Violates unique constraint on index)")
                 ELSE CallOk([st1 EXCEPT !.finished = MapPut(st1.finished, msg.id, new_job)],
                             <<>>,
                             [NoAttrs EXCEPT !.action = "execute_reply", !.job_id = job.id,
                                             !.job_status = to_string(job.status),
                                             !.transaction_error = res_attrs])

reply(st, msg) == IF msg.id = 0 THEN reply_account(st, msg) ELSE reply_job(st, msg)

(***************************************************************************)
(* The state: the contract's <<pending, finished, state, accounts>>, the dispatches awaiting their         *)
(* callback, and the outcome of the latest call.  cin / cout and nin /     *)
(* nout hold the input and the result of the evaluator runs.               *)
(***************************************************************************)
VARIABLES pending, finished, state, accounts, inflight, last, cin, cout, nin, nout

vars == <<pending, finished, state, accounts, inflight, last, cin, cout, nin, nout>>

Storage ==
    [pending |-> pending, finished |-> finished, current_job_id |-> state,
     accounts |-> accounts]

\* the host keeps a call's writes only when the call returned Ok
Commit(r) ==
    IF r.kind = "Ok"
    THEN /\ pending' = r.st.pending
         /\ finished' = r.st.finished
         /\ state' = r.st.current_job_id
         /\ accounts' = r.st.accounts
    ELSE UNCHANGED <<pending, finished, state, accounts>>

Last(op, id, result, r) ==
    [op |-> op, id |-> id, result |-> result, ev |-> NoEvent, kind |-> r.kind, err |-> r.err,
     submsgs |-> r.submsgs, attrs |-> r.attrs]
NoCall ==
    [op |-> "instantiate", id |-> 0, result |-> SubMsgOk, ev |-> NoEvent, kind |-> "Ok",
     err |-> "", submsgs |-> <<>>, attrs |-> NoAttrs]

(***************************************************************************)
(* Inputs.                                                                 *)
(***************************************************************************)
Blocks == {[height |-> 50, time |-> 1000], [height |-> 150, time |-> 2000]}
QueryIds == {1, 2}
QueryOutcomes == {SystemErr, LeafBool(TRUE), LeafBool(FALSE)}
Queriers == [QueryIds -> QueryOutcomes]
Ctx(block, querier, oc) ==
    [height |-> block.height, time |-> block.time, querier |-> querier,
     overflow_checks |-> oc]
\* the environments of the lifecycle: every query has the same outcome
Contexts == {Ctx(b, [q \in QueryIds |-> o], TRUE) : b \in Blocks, o \in QueryOutcomes}
BlockAt(h) == CHOOSE b \in Blocks : b.height = h

HeightAbove100 == Expr(BlockExpr("Gt", 100))
\* the CreateJob requests: who sends which job in which block
JobRequests ==
    { [sender |-> "alice", block |-> BlockAt(50),
       data |-> [name |-> "a", condition |-> HeightAbove100, msgs |-> "m1", reward |-> 50]],
      [sender |-> "bob", block |-> BlockAt(150),
       data |-> [name |-> "b", condition |-> And(<<Expr(BoolExpr(1)), HeightAbove100>>),
                 msgs |-> "m2", reward |-> 60]] }
SubMsgResults == {SubMsgOk, SubMsgErr("insufficient funds")}
JobIds == 1 .. MaxJobs

(***************************************************************************)
(* The job lifecycle.                                                      *)
(***************************************************************************)
Idle ==
    /\ cin = [cond |-> And(<<>>), ctx |-> Ctx([height |-> 0, time |-> 0],
                                               [q \in QueryIds |-> SystemErr], TRUE)]
    /\ cout = [kind |-> "None", val |-> FALSE, err |-> "", qs |-> <<>>]
    /\ nin = [dom |-> "none", value |-> NoValue, overflow_checks |-> TRUE]
    /\ nout = [kind |-> "None", val |-> 0, err |-> "", qs |-> <<>>]

Init ==
    /\ pending = instantiate.pending
    /\ finished = instantiate.finished
    /\ state = instantiate.current_job_id
    /\ accounts = instantiate.accounts
    /\ inflight = [id \in JobIds |-> 0]
    /\ last = NoCall
    /\ Idle

CreateJob ==
    \E req \in JobRequests :
        \E r \in {execute(Storage, Ctx(req.block, [q \in QueryIds |-> SystemErr], TRUE),
                          req.sender, CreateJobMsg(req.data))} :
            /\ state <= MaxJobs
            /\ Commit(r)
            /\ last' = Last("create_job", state, SubMsgOk, r)
            /\ UNCHANGED <<inflight, cin, cout, nin, nout>>

\* the sub-messages of a response are handed to the dispatch collaborator
Dispatched(r, id) == Cardinality({i \in 1..Len(r.submsgs) : r.submsgs[i].id = id})

ExecuteJob ==
    \E id \in 1 .. (MaxJobs + 1), ctx \in Contexts :
        \E r \in {execute(Storage, ctx, "keeper", ExecuteJobMsg(id))} :
            /\ \A j \in JobIds : inflight[j] + Dispatched(r, j) <= MaxDispatch
            /\ Commit(r)
            /\ inflight' = [j \in JobIds |-> inflight[j] + Dispatched(r, j)]
            /\ last' = Last("execute_job", id, SubMsgOk, r)
            /\ UNCHANGED <<cin, cout, nin, nout>>

\* the collaborator delivers the outcome of one outstanding dispatch
DeliverReply ==
    \E id \in JobIds, result \in SubMsgResults :
        \E r \in {reply(Storage, Reply(id, result, NoEvent))} :
            /\ inflight[id] > 0
            /\ Commit(r)
            /\ inflight' = [inflight EXCEPT ![id] = @ - 1]
            /\ last' = Last("reply", id, result, r)
            /\ UNCHANGED <<cin, cout, nin, nout>>

\* a duplicate or stale callback: an outcome tagged with an id that has no
\* pending job
StrayReply ==
    \E id \in 1 .. (MaxJobs + 1), result \in SubMsgResults :
        \E r \in {reply(Storage, Reply(id, result, NoEvent))} :
            /\ ~Has(pending, id)
            /\ Commit(r)
            /\ last' = Last("reply", id, result, r)
            /\ UNCHANGED <<inflight, cin, cout, nin, nout>>

Next == CreateJob \/ ExecuteJob \/ DeliverReply \/ StrayReply

Spec == Init /\ [][Next]_vars

(***************************************************************************)
(* The numeric evaluator on its own: a NumValue of one of the three        *)
(* domains is drawn and resolved.                                          *)
(***************************************************************************)
NoneN == [kind |-> "None", val |-> 0, err |-> "", qs |-> <<>>]
NoneB == [kind |-> "None", val |-> FALSE, err |-> "", qs |-> <<>>]
NumIn(dom, value, oc) == [dom |-> dom, value |-> value, overflow_checks |-> oc]
NumCtx(oc) == Ctx([height |-> 0, time |-> 0], [q \in QueryIds |-> SystemErr], oc)

I128Edges == {I128_MIN, -1, 0, 1, I128_MAX}
IntInputs ==
    {NumIn("int", NumExpr(op, Simple(l), Simple(r)), TRUE) :
        op \in NumExprOp, l \in I128, r \in I128}
    \cup {NumIn("int", NumFn(op, Simple(r)), oc) : op \in IntFnOp, r \in I128, oc \in BOOLEAN}
    \cup {NumIn("int", NumExpr(op, Simple(l), NumExpr("Sub", Simple(a), Simple(b))), TRUE) :
            op \in {"Div", "Mod"}, l \in I128Edges, a \in I128Edges, b \in I128Edges}
UintInputs ==
    {NumIn("uint", NumExpr(op, Simple(l), Simple(r)), TRUE) :
        op \in NumExprOp, l \in U256, r \in U256}
    \cup {NumIn("uint", NumFn(op, Simple(r)), TRUE) : op \in IntFnOp, r \in U256}
DecimalInputs ==
    {NumIn("decimal", NumExpr(op, Simple(l), Simple(r)), TRUE) :
        op \in NumExprOp, l \in U256, r \in U256}
    \cup {NumIn("decimal", NumFn(op, Simple(r)), TRUE) : op \in DecimalFnOp, r \in U256}

InitNum ==
    /\ pending = instantiate.pending
    /\ finished = instantiate.finished
    /\ state = instantiate.current_job_id
    /\ accounts = instantiate.accounts
    /\ inflight = [id \in JobIds |-> 0]
    /\ last = NoCall
    /\ cin = [cond |-> And(<<>>), ctx |-> NumCtx(TRUE)]
    /\ cout = NoneB
    /\ nin \in IntInputs \cup UintInputs \cup DecimalInputs
    /\ nout = NoneN

ResolveInt ==
    /\ nin.dom = "int" /\ nout.kind = "None"
    /\ nout' = resolve_num_value_int(NumCtx(nin.overflow_checks), nin.value)
    /\ UNCHANGED <<pending, finished, state, accounts, inflight, last, cin, cout, nin>>

ResolveUint ==
    /\ nin.dom = "uint" /\ nout.kind = "None"
    /\ nout' = resolve_num_value_uint(NumCtx(nin.overflow_checks), nin.value)
    /\ UNCHANGED <<pending, finished, state, accounts, inflight, last, cin, cout, nin>>

ResolveDecimal ==
    /\ nin.dom = "decimal" /\ nout.kind = "None"
    /\ nout' = resolve_num_value_decimal(NumCtx(nin.overflow_checks), nin.value)
    /\ UNCHANGED <<pending, finished, state, accounts, inflight, last, cin, cout, nin>>

NextNum == ResolveInt \/ ResolveUint \/ ResolveDecimal

SpecNum == InitNum /\ [][NextNum]_vars

(***************************************************************************)
(* The condition evaluator: a condition and an environment are drawn, a    *)
(* job with that condition has just been created, and the condition is     *)
(* resolved read-only (the query path) and by execute_job.                 *)
(***************************************************************************)
MaxConds == 2

RECURSIVE SeqsUpTo(_, _)
SeqsUpTo(S, n) ==
    IF n = 0 THEN {<<>>}
    ELSE SeqsUpTo(S, n - 1) \cup {Append(t, x) : t \in {u \in SeqsUpTo(S, n - 1) : Len(u) = n - 1}, x \in S}

CondLeaves == {Expr(BoolExpr(1)), Expr(BoolExpr(2)), HeightAbove100}
Pairs(S) == {<<>>} \cup {<<a>> : a \in S} \cup {<<a, b>> : a \in S, b \in S}
SmallConds ==
    CondLeaves \cup {Not(c) : c \in CondLeaves}
    \cup {And(t) : t \in Pairs(CondLeaves)} \cup {Or(t) : t \in Pairs(CondLeaves)}
FlatConds ==
    {And(t) : t \in SeqsUpTo(CondLeaves, MaxConds)} \cup {Or(t) : t \in SeqsUpTo(CondLeaves, MaxConds)}
NestedConds ==
    {Not(c) : c \in SmallConds} \cup {Not(Not(c)) : c \in SmallConds}
    \cup {And(<<a, b>>) : a \in SmallConds, b \in SmallConds}
    \cup {Or(<<a, b>>) : a \in SmallConds, b \in SmallConds}
Conditions == SmallConds \cup FlatConds \cup NestedConds
CondContexts == {Ctx(b, q, TRUE) : b \in Blocks, q \in Queriers}

CondJobData(cond) == [name |-> "a", condition |-> cond, msgs |-> "m1", reward |-> 50]
\* the storage after instantiate and one create_job with condition cond
CondCreated(cond) ==
    execute(instantiate, Ctx(BlockAt(50), [q \in QueryIds |-> SystemErr], TRUE), "alice",
            CreateJobMsg(CondJobData(cond)))

InitCond ==
    /\ cin \in [cond : Conditions, ctx : CondContexts]
    /\ cout = NoneB
    /\ pending = CondCreated(cin.cond).st.pending
    /\ finished = CondCreated(cin.cond).st.finished
    /\ state = CondCreated(cin.cond).st.current_job_id
    /\ accounts = CondCreated(cin.cond).st.accounts
    /\ inflight = [id \in JobIds |-> 0]
    /\ last = Last("create_job", InitialJobId, SubMsgOk, CondCreated(cin.cond))
    /\ nin = NumIn("none", NoValue, TRUE)
    /\ nout = NoneN

\* query_resolve_condition
CondResolve ==
    /\ cout.kind = "None"
    /\ cout' = resolve_cond(cin.ctx, cin.cond)
    /\ UNCHANGED <<pending, finished, state, accounts, inflight, last, cin, nin, nout>>

CondExecute ==
    \E r \in {execute(Storage, cin.ctx, "keeper", ExecuteJobMsg(InitialJobId))} :
        /\ \A j \in JobIds : inflight[j] + Dispatched(r, j) <= MaxDispatch
        /\ Commit(r)
        /\ inflight' = [j \in JobIds |-> inflight[j] + Dispatched(r, j)]
        /\ last' = Last("execute_job", InitialJobId, SubMsgOk, r)
        /\ UNCHANGED <<cin, cout, nin, nout>>

NextCond == CondResolve \/ CondExecute

SpecCond == InitCond /\ [][NextCond]_vars

(***************************************************************************)
(* The typed query accessors on their own: a value type and what the query *)
(* yields are drawn, and the query-backed value of that type is resolved.  *)
(***************************************************************************)
QueryChars == {"1", "9", ".", "x"}
QueryStrings == SeqsUpTo(QueryChars, 2)
QueryLeaves ==
    {SystemErr, ContractErr, BadJson, PathNotFound, LeafNull}
    \cup {LeafBool(b) : b \in BOOLEAN}
    \cup {LeafI128(n) : n \in I128Edges}
    \cup {LeafString(s) : s \in QueryStrings}
ValueTypes == {"bool", "string", "int", "uint", "decimal"}

InitQuery ==
    /\ pending = instantiate.pending
    /\ finished = instantiate.finished
    /\ state = instantiate.current_job_id
    /\ accounts = instantiate.accounts
    /\ inflight = [id \in JobIds |-> 0]
    /\ last = NoCall
    /\ \E leaf \in QueryLeaves :
          cin = [cond |-> And(<<>>),
                 ctx |-> Ctx([height |-> 0, time |-> 0], [q \in QueryIds |-> leaf], TRUE)]
    /\ cout = NoneB
    /\ \E type \in ValueTypes : nin = NumIn(type, NumQuery(1), TRUE)
    /\ nout = NoneN

QueryBool ==
    /\ nin.dom = "bool" /\ nout.kind = "None"
    /\ nout' = resolve_expr(cin.ctx, BoolExpr(nin.value.q))
    /\ UNCHANGED <<pending, finished, state, accounts, inflight, last, cin, cout, nin>>

QueryString ==
    /\ nin.dom = "string" /\ nout.kind = "None"
    /\ nout' = resolve_string_value(cin.ctx, StrQuery(nin.value.q))
    /\ UNCHANGED <<pending, finished, state, accounts, inflight, last, cin, cout, nin>>

QueryInt ==
    /\ nin.dom = "int" /\ nout.kind = "None"
    /\ nout' = resolve_num_value_int(cin.ctx, nin.value)
    /\ UNCHANGED <<pending, finished, state, accounts, inflight, last, cin, cout, nin>>

QueryUint ==
    /\ nin.dom = "uint" /\ nout.kind = "None"
    /\ nout' = resolve_num_value_uint(cin.ctx, nin.value)
    /\ UNCHANGED <<pending, finished, state, accounts, inflight, last, cin, cout, nin>>

QueryDecimal ==
    /\ nin.dom = "decimal" /\ nout.kind = "None"
    /\ nout' = resolve_num_value_decimal(cin.ctx, nin.value)
    /\ UNCHANGED <<pending, finished, state, accounts, inflight, last, cin, cout, nin>>

NextQuery == QueryBool \/ QueryString \/ QueryInt \/ QueryUint \/ QueryDecimal

SpecQuery == InitQuery /\ [][NextQuery]_vars

(***************************************************************************)
(* Account creation: the acknowledgments of the account instantiations     *)
(* (reply with id 0) arrive in any order and with any content.             *)
(***************************************************************************)
Owners == {"alice", "bob"}
Proxies == {"proxy1", "proxy2"}
\* an attribute of the event: absent, an address, or text that is no address
OwnerAttrs == {<<>>, <<"?">>} \cup {<<o>> : o \in Owners}
ContractAddrAttrs == {<<>>, <<"?">>} \cup {<<a>> : a \in Proxies}
InstantiateEvents ==
    [instantiate : BOOLEAN, owner : OwnerAttrs, contract_addr : ContractAddrAttrs]

InitAccounts ==
    /\ pending = instantiate.pending
    /\ finished = instantiate.finished
    /\ state = instantiate.current_job_id
    /\ accounts = instantiate.accounts
    /\ inflight = [id \in JobIds |-> 0]
    /\ last = NoCall
    /\ Idle

AccountReply ==
    \E result \in SubMsgResults, ev \in InstantiateEvents :
        \E r \in {reply(Storage, Reply(0, result, ev))} :
            /\ Commit(r)
            /\ last' = [Last("reply", 0, result, r) EXCEPT !.ev = ev]
            /\ UNCHANGED <<inflight, cin, cout, nin, nout>>

NextAccounts == AccountReply

SpecAccounts == InitAccounts /\ [][NextAccounts]_vars

(***************************************************************************)
(* The environment conditions on their own: a Timestamp or BlockHeight     *)
(* expression and a block are drawn, and the expression is resolved.       *)
(* ctx.time is env.block.time.seconds().                                   *)
(***************************************************************************)
MaxHeight == 4
EnvValues == 0 .. MaxHeight
EnvExprs ==
    {TimeExpr(op, c) : op \in TimeOp, c \in EnvValues}
    \cup {BlockExpr(op, c) : op \in NumOp, c \in EnvValues}
EnvContexts ==
    {Ctx([height |-> h, time |-> t], [q \in QueryIds |-> SystemErr], TRUE) :
        h \in EnvValues, t \in EnvValues}

InitEnv ==
    /\ pending = instantiate.pending
    /\ finished = instantiate.finished
    /\ state = instantiate.current_job_id
    /\ accounts = instantiate.accounts
    /\ inflight = [id \in JobIds |-> 0]
    /\ last = NoCall
    /\ cin \in [cond : {Expr(e) : e \in EnvExprs}, ctx : EnvContexts]
    /\ cout = NoneB
    /\ nin = NumIn("none", NoValue, TRUE)
    /\ nout = NoneN

ResolveTimestamp ==
    /\ cin.cond.expr.kind = "Timestamp" /\ cout.kind = "None"
    /\ cout' = resolve_cond(cin.ctx, cin.cond)
    /\ UNCHANGED <<pending, finished, state, accounts, inflight, last, cin, nin, nout>>

ResolveBlockHeight ==
    /\ cin.cond.expr.kind = "BlockHeight" /\ cout.kind = "None"
    /\ cout' = resolve_cond(cin.ctx, cin.cond)
    /\ UNCHANGED <<pending, finished, state, accounts, inflight, last, cin, nin, nout>>

NextEnv == ResolveTimestamp \/ ResolveBlockHeight

SpecEnv == InitEnv /\ [][NextEnv]_vars

(***************************************************************************)
(* The job lifecycle with a fair dispatch collaborator: the outcome of     *)
(* every outstanding dispatch is delivered in the end.  The calls are      *)
(* those of the lifecycle above; their responses are not recorded (last    *)
(* stays as it is), only the <<pending, finished, state, accounts>> and the outstanding dispatches.  A     *)
(* callback without an outstanding dispatch changes neither and is left    *)
(* out.                                                                    *)
(***************************************************************************)
LiveCreateJob ==
    \E req \in JobRequests :
        \E r \in {execute(Storage, Ctx(req.block, [q \in QueryIds |-> SystemErr], TRUE),
                          req.sender, CreateJobMsg(req.data))} :
            /\ state <= MaxJobs
            /\ Commit(r)
            /\ UNCHANGED <<inflight, last, cin, cout, nin, nout>>

LiveExecuteJob ==
    \E id \in 1 .. (MaxJobs + 1), ctx \in Contexts :
        \E r \in {execute(Storage, ctx, "keeper", ExecuteJobMsg(id))} :
            /\ \A j \in JobIds : inflight[j] + Dispatched(r, j) <= MaxDispatch
            /\ Commit(r)
            /\ inflight' = [j \in JobIds |-> inflight[j] + Dispatched(r, j)]
            /\ UNCHANGED <<last, cin, cout, nin, nout>>

\* the collaborator delivers the outcome of one outstanding dispatch of id
LiveDeliverReply(id) ==
    \E result \in SubMsgResults :
        \E r \in {reply(Storage, Reply(id, result, NoEvent))} :
            /\ inflight[id] > 0
            /\ Commit(r)
            /\ inflight' = [inflight EXCEPT ![id] = @ - 1]
            /\ UNCHANGED <<last, cin, cout, nin, nout>>

NextLive == LiveCreateJob \/ LiveExecuteJob \/ \E id \in JobIds : LiveDeliverReply(id)

SpecLive == Init /\ [][NextLive]_vars /\ \A id \in JobIds : WF_vars(LiveDeliverReply(id))

(***************************************************************************)
(* Jobs and accounts together: the calls of the fair lifecycle and the     *)
(* acknowledgments of account instantiations, on one storage.  The         *)
(* responses are not recorded.                                             *)
(***************************************************************************)
\* the events a callback carries: none, or the instantiate event of alice's
\* account at one of the proxy addresses
IdsEvents ==
    {NoEvent} \cup {[instantiate |-> TRUE, owner |-> <<"alice">>, contract_addr |-> <<a>>] :
                       a \in Proxies}

IdsAccountReply ==
    \E result \in SubMsgResults, ev \in IdsEvents :
        \E r \in {reply(Storage, Reply(0, result, ev))} :
            /\ r.kind = "Ok"
            /\ Commit(r)
            /\ UNCHANGED <<inflight, last, cin, cout, nin, nout>>

NextIds ==
    LiveCreateJob \/ LiveExecuteJob \/ (\E id \in JobIds : LiveDeliverReply(id)) \/ IdsAccountReply

SpecIds == Init /\ [][NextIds]_vars

(***************************************************************************)
(* Properties of the job lifecycle.                                        *)
(***************************************************************************)
Created(id) == InitialJobId <= id /\ id < state

\* C1: every job id that has been created is in exactly one of the pending
\* store and the finished store, never in both and never in neither.
C1_ExactlyOneStore ==
    \A id \in 1 .. (MaxJobs + 1) : Created(id) => (Has(pending, id) /\ ~Has(finished, id))
                                                   \/ (~Has(pending, id) /\ Has(finished, id))

\* a duplicate callback has just been rejected while one job is finished and
\* another is pending
C1_Witness ==
    /\ last.op = "reply" /\ last.kind = "Err" /\ Has(finished, last.id)
    /\ \E id \in JobIds : Has(pending, id) /\ inflight[id] > 0

\* C2 (as claimed): a callback for a job that an earlier callback finalized
\* is rejected with JobAlreadyFinished.
C2_SecondIsJobAlreadyFinished ==
    (last.op = "reply" /\ last.kind # "Ok" /\ Has(finished, last.id))
        => last.err = "JobAlreadyFinished"

\* C3: a finished record is terminal: no step changes it, removes it or puts
\* its id back into the pending store, and its status is Executed or Failed.
C3_FinishedIsTerminal ==
    /\ [](\A id \in DOMAIN finished : finished[id].status \in {"Executed", "Failed"})
    /\ [][\A id \in DOMAIN finished :
              /\ Has(finished', id)
              /\ finished'[id] = finished[id]
              /\ ~Has(pending', id)]_vars

\* a callback with the other outcome, or an execute_job, has been processed
\* for a job that was finalized before
C3_Witness ==
    /\ Has(finished, last.id)
    /\ \/ last.op = "execute_job" /\ last.kind = "Err"
       \/ /\ last.op = "reply" /\ last.kind = "Err"
          /\ finished[last.id].status = "Executed" /\ ~last.result.ok

\* C4: a callback for a pending job <<pending, finished, state, accounts>> the job in the finished store
\* under the same id with status Executed on success and Failed on failure,
\* every other field as in the pending record.
C4_ReplyCopiesJob ==
    [][\A id \in DOMAIN pending :
          (last'.op = "reply" /\ last'.id = id) =>
              /\ last'.kind = "Ok"
              /\ Has(finished', id)
              /\ finished'[id] = [pending[id] EXCEPT
                                    !.status = IF last'.result.ok THEN "Executed" ELSE "Failed"]]_vars

\* a failing outcome has just finalized one job as Failed, a succeeding one
\* another job as Executed before
C4_Witness ==
    /\ last.op = "reply" /\ last.kind = "Ok" /\ ~last.result.ok
    /\ Has(finished, last.id) /\ finished[last.id].status = "Failed"
    /\ \E id \in DOMAIN finished : finished[id].status = "Executed"

(***************************************************************************)
(* Properties of the condition evaluator.  Denote is the meaning of a      *)
(* condition in an environment: "T", "F" or "E" (the evaluation fails),    *)
(* children read left to right up to the first that decides.               *)
(***************************************************************************)
LeafDenote(ctx, expr) ==
    CASE expr.kind = "Bool" ->
            IF ctx.querier[expr.q].stage = "leaf" /\ ctx.querier[expr.q].kind = "Bool"
            THEN IF ctx.querier[expr.q].b THEN "T" ELSE "F"
            ELSE "E"
      [] expr.kind = "BlockHeight" /\ expr.op = "Gt" ->
            IF ctx.height > expr.comparator THEN "T" ELSE "F"

MinOf(S) == CHOOSE x \in S : \A y \in S : x <= y

RECURSIVE Denote(_, _)
Denote(ctx, c) ==
    CASE c.tag = "Expr" -> LeafDenote(ctx, c.expr)
      [] c.tag = "Not" ->
            LET d == Denote(ctx, c.conds[1])
            IN  IF d = "T" THEN "F" ELSE IF d = "F" THEN "T" ELSE "E"
      [] c.tag = "And" ->
            LET deciding == {i \in 1..Len(c.conds) : Denote(ctx, c.conds[i]) # "T"}
            IN  IF deciding = {} THEN "T" ELSE Denote(ctx, c.conds[MinOf(deciding)])
      [] c.tag = "Or" ->
            LET deciding == {i \in 1..Len(c.conds) : Denote(ctx, c.conds[i]) # "F"}
            IN  IF deciding = {} THEN "F" ELSE Denote(ctx, c.conds[MinOf(deciding)])

\* the index of the first child of an And / Or that decides it (0: none)
FirstDeciding(ctx, c) ==
    LET stop == IF c.tag = "And" THEN "T" ELSE "F"
        deciding == {i \in 1..Len(c.conds) : Denote(ctx, c.conds[i]) # stop}
    IN  IF deciding = {} THEN 0 ELSE MinOf(deciding)

\* the queries issued by evaluating the children 1..n of c in turn
RECURSIVE ChildQueries(_, _, _)
ChildQueries(ctx, c, n) ==
    IF n = 0 THEN <<>>
    ELSE ChildQueries(ctx, c, n - 1) \o resolve_cond(ctx, c.conds[n]).qs

NoDispatch == last.submsgs = <<>> /\ \A j \in JobIds : inflight[j] = 0
StoresAsCreated ==
    /\ pending = CondCreated(cin.cond).st.pending
    /\ finished = EmptyMap
    /\ state = CondCreated(cin.cond).st.current_job_id

\* C5: execute_job on a pending job whose condition evaluates to false fails
\* with ConditionNotMet, dispatches nothing and leaves the job (still
\* Pending) and both <<pending, finished, state, accounts>> unchanged.
C5_ConditionNotMet ==
    (last.op = "execute_job" /\ Denote(cin.ctx, cin.cond) = "F") =>
        /\ last.kind = "Err" /\ last.err = "ConditionNotMet"
        /\ NoDispatch
        /\ StoresAsCreated
        /\ Has(pending, last.id) /\ pending[last.id].status = "Pending"

\* execute_job was rejected on a job whose condition is an And with a false
\* second child
C5_Witness ==
    /\ last.op = "execute_job" /\ last.err = "ConditionNotMet"
    /\ cin.cond = And(<<Expr(BoolExpr(1)), HeightAbove100>>)
    /\ cin.ctx.height = 50

\* C6: And and Or stop at the first deciding child: a false child of an And
\* gives false, a true child of an Or gives true, even when a later child
\* would fail, and no query of a later child is issued.
C6_ShortCircuit ==
    (cout.kind # "None" /\ cin.cond.tag \in {"And", "Or"} /\ FirstDeciding(cin.ctx, cin.cond) > 0
     /\ Denote(cin.ctx, cin.cond.conds[FirstDeciding(cin.ctx, cin.cond)]) # "E") =>
        /\ cout.kind = "Ok"
        /\ cout.val = (cin.cond.tag = "Or")
        /\ cout.qs = ChildQueries(cin.ctx, cin.cond, FirstDeciding(cin.ctx, cin.cond))

\* an And whose first child is false and an Or whose first child is true have
\* been resolved, each with a later child that fails
C6_Witness ==
    /\ cout.kind = "Ok"
    /\ cin.cond.tag \in {"And", "Or"}
    /\ Len(cin.cond.conds) = 2
    /\ FirstDeciding(cin.ctx, cin.cond) = 1
    /\ Denote(cin.ctx, cin.cond.conds[2]) = "E"
    /\ cout.qs = <<>>

\* C7: an evaluation that reaches a failing child or operand returns that
\* error, never a boolean, and execute_job on such a job fails without
\* dispatching.
C7_ErrorPropagates ==
    Denote(cin.ctx, cin.cond) = "E" =>
        /\ cout.kind # "None" => cout.kind = "Err" /\ cout.err = "Std(Querier system error)"
        /\ last.op = "execute_job" =>
              /\ last.kind = "Err" /\ last.err = "Std(Querier system error)"
              /\ NoDispatch
              /\ StoresAsCreated

\* And([failing, false]), Or([failing, true]) or Not(failing) has been
\* resolved and executed
C7_Witness ==
    /\ cout.kind = "Err" /\ last.op = "execute_job"
    /\ cin.ctx.querier[1].stage = "system_err"
    /\ \/ cin.cond = And(<<Expr(BoolExpr(1)), HeightAbove100>>) /\ cin.ctx.height = 50
       \/ cin.cond = Or(<<Expr(BoolExpr(1)), HeightAbove100>>) /\ cin.ctx.height = 150
       \/ cin.cond = Not(Expr(BoolExpr(1)))

\* C10: And([]) is true, Or([]) is false, and Not(Not(c)) resolves as c does:
\* the same boolean, or the same error.
C10_EmptyAndDoubleNegation ==
    cout.kind # "None" =>
        /\ cin.cond = And(<<>>) => cout.kind = "Ok" /\ cout.val = TRUE
        /\ cin.cond = Or(<<>>) => cout.kind = "Ok" /\ cout.val = FALSE
        /\ (cin.cond.tag = "Not" /\ cin.cond.conds[1].tag = "Not") =>
              /\ cout.kind = resolve_cond(cin.ctx, cin.cond.conds[1].conds[1]).kind
              /\ cout.val = resolve_cond(cin.ctx, cin.cond.conds[1].conds[1]).val
              /\ cout.err = resolve_cond(cin.ctx, cin.cond.conds[1].conds[1]).err

\* Not(Not(c)) has been resolved for a c that fails
C10_Witness ==
    /\ cout.kind = "Err"
    /\ cin.cond.tag = "Not" /\ cin.cond.conds[1].tag = "Not"
    /\ cin.cond.conds[1].conds[1].tag = "Or"

(***************************************************************************)
(* Properties of the numeric evaluator.                                    *)
(***************************************************************************)
Saturated(x, lo, hi) == IF x > hi THEN hi ELSE IF x < lo THEN lo ELSE x
Resolved == nout.kind # "None"
\* the input is op applied to two literals
BinaryOnLiterals ==
    /\ nin.value.tag = "Expr"
    /\ nin.value.args[1].tag = "Simple" /\ nin.value.args[2].tag = "Simple"
LeftLit == nin.value.args[1].val
RightLit == nin.value.args[2].val
\* the mathematical result of Add, Sub and Mul on two integers
Exact(op, l, r) == CASE op = "Add" -> l + r [] op = "Sub" -> l - r [] op = "Mul" -> l * r
DomMin == IF nin.dom = "int" THEN I128_MIN ELSE 0
DomMax == IF nin.dom = "int" THEN I128_MAX ELSE U256_MAX

\* C8 (as claimed): Add, Sub and Mul return the exact result when it lies
\* inside the domain and otherwise the bound of the domain that was exceeded,
\* in all three domains.  On decimals the values are atomics /
\* DECIMAL_FRACTIONAL, so the exact product of l and r is the value v with
\* v * DECIMAL_FRACTIONAL = l * r.
C8_ExactOrBound ==
    (Resolved /\ BinaryOnLiterals /\ nin.value.op \in {"Add", "Sub", "Mul"}) =>
        /\ nout.kind = "Ok"
        /\ IF nin.dom = "decimal" /\ nin.value.op = "Mul"
           THEN IF (LeftLit * RightLit) % DECIMAL_FRACTIONAL = 0
                   /\ (LeftLit * RightLit) \div DECIMAL_FRACTIONAL <= DECIMAL_MAX
                THEN nout.val * DECIMAL_FRACTIONAL = LeftLit * RightLit
                ELSE nout.val \in {0, DECIMAL_MAX}
           ELSE nout.val = Saturated(Exact(nin.value.op, LeftLit, RightLit), DomMin, DomMax)

\* C8 (amended): as claimed, except that Mul on decimals returns the exact
\* product rounded down to the fractional digits of the domain when that is
\* inside the domain, and the maximum otherwise.
C8_SaturatingArithmetic ==
    (Resolved /\ BinaryOnLiterals /\ nin.value.op \in {"Add", "Sub", "Mul"}) =>
        /\ nout.kind = "Ok"
        /\ IF nin.dom = "decimal" /\ nin.value.op = "Mul"
           THEN nout.val = Saturated((LeftLit * RightLit) \div DECIMAL_FRACTIONAL, 0, DECIMAL_MAX)
           ELSE nout.val = Saturated(Exact(nin.value.op, LeftLit, RightLit), DomMin, DomMax)

\* a signed Mul below the minimum has been resolved to the minimum
C8_Witness ==
    /\ Resolved /\ BinaryOnLiterals /\ nin.dom = "int" /\ nin.value.op = "Mul"
    /\ LeftLit * RightLit < I128_MIN
    /\ nout.kind = "Ok" /\ nout.val = I128_MIN

\* the right operand of a Div or Mod evaluates to zero
DivModByZero ==
    /\ nin.value.tag = "Expr" /\ nin.value.op \in {"Div", "Mod"}
    /\ IF nin.value.args[2].tag = "Simple" THEN RightLit = 0
       ELSE resolve_num_value_int(NumCtx(TRUE), nin.value.args[2]).val = 0

\* C9 (as claimed): an application of Add, Sub, Mul, Div, Mod, Abs or Neg
\* faults exactly when it is a Div or Mod whose right operand evaluates to
\* zero; every other one returns a value.
C9_OnlyDivModByZeroFaults ==
    (Resolved /\ nin.value.op \in NumExprOp \cup IntFnOp) =>
        /\ DivModByZero => nout.kind = "Panic"
        /\ ~DivModByZero => nout.kind = "Ok"

(***************************************************************************)
(* Properties of the typed query accessors.                                *)
(***************************************************************************)
\* the leaf type the accessor of a value type takes: Ref::bool for bool,
\* Ref::i128 for the signed integer, Ref::string for the others
RequiredLeaf(type) ==
    CASE type = "bool" -> "Bool"
      [] type = "int" -> "I128"
      [] type \in {"string", "uint", "decimal"} -> "String"
QueriedLeaf == cin.ctx.querier[nin.value.q]

\* C11 (as claimed): for every value type, a selector that resolves to a leaf
\* of another type than the accessor requires makes the query-backed
\* evaluation fail with DecodeError, and no value is returned.
C11_TypeMismatchIsDecodeError ==
    (nout.kind # "None" /\ QueriedLeaf.stage = "leaf"
     /\ QueriedLeaf.kind # RequiredLeaf(nin.dom)) =>
        nout.kind = "Err" /\ nout.err = "DecodeError"

(***************************************************************************)
(* Properties of the <<pending, finished, state, accounts>>' unique indexes.                               *)
(***************************************************************************)
UniqueViolation == "Std(Violates unique constraint on index)"

\* C12: jobs of the same reward and different ids are all created, stored
\* and finalized: no create_job and no callback is rejected by the unique
\* (reward, id) index, every record is stored under its own id, and the two
\* <<pending, finished, state, accounts>> together hold one record per created job.
C12_SameRewardJobsCoexist ==
    /\ last.err # UniqueViolation
    /\ last.op = "create_job" => last.kind = "Ok" /\ Has(pending, last.id)
    /\ \A id \in DOMAIN pending : pending[id].id = id
    /\ \A id \in DOMAIN finished : finished[id].id = id
    /\ Cardinality(DOMAIN pending) + Cardinality(DOMAIN finished) = state - InitialJobId
    /\ \A i \in DOMAIN finished, j \in DOMAIN finished :
          job_reward_index(finished[i]) = job_reward_index(finished[j]) => i = j

\* two jobs of the same reward have both been finalized, the second one just
\* now
C12_Witness ==
    /\ last.op = "reply" /\ last.kind = "Ok"
    /\ \E i \in DOMAIN finished, j \in DOMAIN finished :
          i # j /\ j = last.id /\ finished[i].reward = finished[j].reward

(***************************************************************************)
(* Properties of the account store.                                        *)
(***************************************************************************)
\* C13: the account store is one-to-one in both directions: an owner has one
\* record at most (the one stored under the owner, naming that owner), and
\* no proxy address is registered to two different owners.
C13_AccountsOneToOne ==
    /\ \A o \in DOMAIN accounts : accounts[o].owner = o
    /\ \A o1 \in DOMAIN accounts, o2 \in DOMAIN accounts :
          accounts[o1].account = accounts[o2].account => o1 = o2
    /\ Cardinality({accounts[o].account : o \in DOMAIN accounts}) = Cardinality(DOMAIN accounts)

\* an acknowledgment naming the proxy address of another owner's account has
\* just been refused
C13_Witness ==
    /\ last.op = "reply" /\ last.id = 0 /\ last.err = UniqueViolation
    /\ \E o \in DOMAIN accounts :
          o # last.ev.owner[1] /\ accounts[o].account = last.ev.contract_addr[1]

\* the acknowledgment reports success and carries the instantiate event with
\* the owner and the proxy address
SuccessfulAck(l) ==
    /\ l.op = "reply" /\ l.id = 0
    /\ l.result.ok /\ l.ev.instantiate
    /\ l.ev.owner # <<>> /\ l.ev.contract_addr # <<>>
    /\ l.ev.owner[1] \in Addresses /\ l.ev.contract_addr[1] \in Addresses

CallbackAccepted == last.op = "reply" /\ last.id # 0 /\ last.kind = "Ok"

\* C15: an accepted callback that reports failure finalizes the job as
\* Failed and its response carries the reason text, unchanged, as the
\* transaction_error attribute; one that reports success carries no such
\* attribute.
C15_FailureReasonRetained ==
    CallbackAccepted =>
        /\ Has(finished, last.id)
        /\ IF last.result.ok
           THEN last.attrs.transaction_error = <<>>
           ELSE /\ finished[last.id].status = "Failed"
                /\ last.attrs.transaction_error = <<last.result.err>>

\* a callback reporting "insufficient funds" has been accepted
C15_Witness ==
    /\ CallbackAccepted /\ ~last.result.ok
    /\ last.attrs.transaction_error = <<"insufficient funds">>
    /\ finished[last.id].status = "Failed"

\* C18: a callback whose id has no entry in the pending store (never
\* created, already finished, or stale) returns an error and changes neither
\* the pending nor the finished store.
C18_StrayCallbackRejected ==
    [][(last'.op = "reply" /\ last'.id # 0 /\ ~Has(pending, last'.id)) =>
          /\ last'.kind = "Err"
          /\ pending' = pending /\ finished' = finished]_vars

\* a callback for an id that no job was created with has been refused while
\* a job is pending and another is finished
C18_Witness ==
    /\ last.op = "reply" /\ last.kind = "Err" /\ ~Created(last.id)
    /\ pending # EmptyMap /\ finished # EmptyMap

ConditionHolds(ctx, job) ==
    LET r == resolve_cond(ctx, job.condition) IN r.kind = "Ok" /\ r.val

\* C20: there is no in-flight guard: while a dispatch of a pending job is
\* outstanding, execute_job on its id is accepted in every environment in
\* which the condition holds and dispatches the job's actions again.
C20_NoInFlightGuard ==
    \A id \in JobIds : \A ctx \in Contexts :
        (Has(pending, id) /\ inflight[id] > 0 /\ ConditionHolds(ctx, pending[id])) =>
            LET r == execute(Storage, ctx, "keeper", ExecuteJobMsg(id))
            IN  /\ r.kind = "Ok"
                /\ r.submsgs = <<[id |-> id, msgs |-> pending[id].msgs]>>

\* two dispatches of one pending job are outstanding
C20_Witness ==
    \E id \in DOMAIN pending :
        inflight[id] = 2 /\ last.op = "execute_job" /\ last.id = id /\ last.kind = "Ok"

\* C22 (as claimed): the job_status attribute of an accepted callback's
\* response is the status the callback wrote to the finished store (its
\* JSON text).
C22_StatusAttributeIsWritten ==
    CallbackAccepted =>
        /\ finished[last.id].status \in {"Executed", "Failed"}
        /\ last.attrs.job_status = <<"\"", finished[last.id].status, "\"">>

(***************************************************************************)
(* Properties of the numeric functions.                                    *)
(***************************************************************************)
\* C16 (as claimed): Neg applied to a value v of an unsigned domain (Uint256,
\* Decimal256) returns the maximum of the domain minus v.
C16_NegIsMaxMinusValue ==
    (Resolved /\ nin.dom \in {"uint", "decimal"} /\ nin.value.tag = "Fn"
     /\ nin.value.op = "Neg" /\ nin.value.args[1].tag = "Simple") =>
        /\ nout.kind = "Ok"
        /\ nout.val = DomMax - nin.value.args[1].val

(***************************************************************************)
(* Properties of the environment conditions.                               *)
(***************************************************************************)
\* how x stands to y: "below", "equal" or "above"
Standing(x, y) == IF x < y THEN "below" ELSE IF x > y THEN "above" ELSE "equal"
\* the standings in which the relation op holds
Holds(op) ==
    CASE op = "Eq" -> {"equal"}
      [] op = "Neq" -> {"below", "above"}
      [] op = "Lt" -> {"below"}
      [] op = "Gt" -> {"above"}
      [] op = "Gte" -> {"equal", "above"}
      [] op = "Lte" -> {"below", "equal"}

\* C17: a Timestamp condition is true exactly when the block time in seconds
\* is strictly below (Lt) or strictly above (Gt) the comparator, a
\* BlockHeight condition exactly when the block height stands in the chosen
\* relation to the comparator; both return a boolean and never an error.
C17_EnvironmentConditions ==
    cout.kind # "None" =>
        LET expr == cin.cond.expr
            now == IF expr.kind = "Timestamp" THEN cin.ctx.time ELSE cin.ctx.height
        IN  /\ cout.kind = "Ok"
            /\ cout.val = (Standing(now, expr.comparator) \in Holds(expr.op))
            /\ cout.qs = <<>>

\* a Timestamp Gt and a BlockHeight Lte have been resolved at the boundary:
\* the time equals the comparator (false), the height equals it (true)
C17_Witness ==
    /\ cout.kind = "Ok"
    /\ \/ /\ cin.cond.expr.kind = "Timestamp" /\ cin.cond.expr.op = "Gt"
          /\ cin.ctx.time = cin.cond.expr.comparator /\ ~cout.val
       \/ /\ cin.cond.expr.kind = "BlockHeight" /\ cin.cond.expr.op = "Lte"
          /\ cin.ctx.height = cin.cond.expr.comparator /\ cout.val

(***************************************************************************)
(* Progress of the job lifecycle.                                          *)
(***************************************************************************)
Finalized(id) ==
    /\ ~Has(pending, id)
    /\ Has(finished, id) /\ finished[id].status \in {"Executed", "Failed"}

\* C21: when the outcome of every dispatch is delivered in the end, a job
\* whose actions were dispatched, once or more than once, is in the end
\* absent from the pending store and in the finished store as Executed or
\* Failed.
C21_DispatchedIsFinalized ==
    \A id \in JobIds : (inflight[id] > 0) ~> Finalized(id)

\* a job dispatched twice has been finalized by the first of its callbacks
\* while the second is outstanding
C21_Witness ==
    \E id \in JobIds : Finalized(id) /\ inflight[id] > 0

(***************************************************************************)
(* Properties of the correlation ids.                                      *)
(***************************************************************************)
\* the callbacks that can arrive: any id, outcome and events
IdsReplies ==
    {Reply(id, result, ev) : id \in 0 .. (MaxJobs + 1), result \in SubMsgResults, ev \in IdsEvents}

\* C23: job ids are never 0: the counter starts at 1, no stored job and no
\* dispatch is tagged 0, so a callback tagged with a job's id is handled by
\* the job branch of reply (it never touches the accounts) and a callback
\* tagged 0 by the account branch (it never touches the job <<pending, finished, state, accounts>>).
C23_JobIdsNeverZero ==
    /\ InitialJobId = 1 /\ state >= 1
    /\ \A id \in DOMAIN pending : id # 0 /\ pending[id].id = id
    /\ \A id \in DOMAIN finished : id # 0 /\ finished[id].id = id
    /\ \A id \in DOMAIN pending : \A ctx \in Contexts :
          LET r == execute(Storage, ctx, "keeper", ExecuteJobMsg(id))
          IN  \A i \in 1 .. Len(r.submsgs) : r.submsgs[i].id = id
    /\ \A msg \in IdsReplies :
          LET r == reply(Storage, msg)
          IN  IF msg.id = 0
              THEN /\ r.st.pending = pending /\ r.st.finished = finished
                   /\ r.attrs.action # "execute_reply"
              ELSE /\ r.st.accounts = accounts
                   /\ r.attrs.action # "save_account"
                   /\ (Has(pending, msg.id) => r.kind = "Ok" /\ Has(r.st.finished, msg.id))

\* a job has been finalized and another is pending while an account is stored
C23_Witness ==
    /\ finished # EmptyMap /\ pending # EmptyMap
    /\ accounts # EmptyMap

====
